---- MODULE Spec2Model ----
(***************************************************************************)
(* DeepFillV2 (src/deepfillv2.py): the LightningModule that trains the     *)
(* inpainting generator net_G against the discriminator net_D, as it is    *)
(* driven by Trainer.fit from the __main__ block.                          *)
(*                                                                         *)
(* Tensors are finite arrays of integers.  A sample image is image[c][p]   *)
(* (channel c, pixel p of a single row of width NumPixels); a sample mask  *)
(* is mask[p] in {0,1}; a batch is a record of two sequences, one entry    *)
(* per sample.  Float arithmetic is modelled exactly: scalars that come    *)
(* out of torch.mean are rationals <<numerator, denominator>>.             *)
(***************************************************************************)
EXTENDS Integers, Sequences, FiniteSets, TLC

(***************************************************************************)
(* Bounds of the model and constants of the program.                       *)
(***************************************************************************)
NumChannels == 3
NumPixels == 2
NumImages == 2
MaxTheta == 1
MaxVis == 3

Channels == 1..NumChannels
Pix == 1..NumPixels
Thetas == 0..MaxTheta

None == <<>>
Some(x) == <<x>>

(***************************************************************************)
(* Scalars: exact rationals <<n, d>> with d > 0.                           *)
(***************************************************************************)
RAdd(a, b) == <<a[1] * b[2] + b[1] * a[2], a[2] * b[2]>>
RScale(k, a) == <<k * a[1], a[2]>>
REq(a, b) == a[1] * b[2] = b[1] * a[2]
RIsZero(a) == a[1] = 0
RNonNeg(a) == a[1] >= 0

RECURSIVE SumTo(_, _)
SumTo(s, k) == IF k = 0 THEN 0 ELSE s[k] + SumTo(s, k - 1)
SeqSum(s) == SumTo(s, Len(s))

\* torch.mean of a tensor t[n][p]
Mean(t) == <<SeqSum([n \in 1..Len(t) |-> SeqSum(t[n])]), Len(t) * NumPixels>>
\* torch.mean of a tensor t[n][c][p]
MeanImage(t) ==
    <<SeqSum([n \in 1..Len(t) |-> SeqSum([c \in Channels |-> SeqSum(t[n][c])])]),
      Len(t) * NumChannels * NumPixels>>

Relu(x) == IF x > 0 THEN x ELSE 0
Abs(x) == IF x < 0 THEN -x ELSE x

(***************************************************************************)
(* args: the hyperparameters parsed by util.arguments.                     *)
(***************************************************************************)
HParamChoices ==
    { [lr |-> 1, weight_decay |-> 0, batch_size |-> 1, max_epoch |-> 2,
       gen_loss_alpha |-> 1, disc_loss_alpha |-> 1, vis_dataset |-> "vis",
       l1_c_h |-> 1, l1_c_nh |-> 1, l1_r_h |-> 1, l1_r_nh |-> 1],
      [lr |-> 2, weight_decay |-> 1, batch_size |-> 2, max_epoch |-> 2,
       gen_loss_alpha |-> 2, disc_loss_alpha |-> 0, vis_dataset |-> "vis",
       l1_c_h |-> 2, l1_c_nh |-> 1, l1_r_h |-> 3, l1_r_nh |-> 0],
      [lr |-> 1, weight_decay |-> 0, batch_size |-> 2, max_epoch |-> 1,
       gen_loss_alpha |-> 0, disc_loss_alpha |-> 3, vis_dataset |-> "vis",
       l1_c_h |-> 0, l1_c_nh |-> 2, l1_r_h |-> 1, l1_r_nh |-> 1] }

(***************************************************************************)
(* InpaintDataset: samples are normalised images with a box mask.          *)
(***************************************************************************)
ImageAt(i) == [c \in Channels |-> [p \in Pix |-> ((i + c + 2 * p) % 3) - 1]]
BoxMask(k) == [p \in Pix |-> IF p = k THEN 1 ELSE 0]

\* a split of n samples, in the order of its index
Sample(j) == [image |-> ImageAt(j), mask |-> BoxMask(((j - 1) % NumPixels) + 1)]
InpaintDataset(n) == [j \in 1..n |-> Sample(j)]

(***************************************************************************)
(* The networks.  A network is a function of its parameters and its input; *)
(* the parameters are abstracted to one value in Thetas.                   *)
(***************************************************************************)
\* InpaintSAGenerator.forward: the coarse and the refined image
NetG(th, image, mask) ==
    [coarse |-> [n \in 1..Len(image) |-> [c \in Channels |-> [p \in Pix |->
                    ((image[n][c][p] * (1 - mask[n][p]) + th + 1) % 3) - 1]]],
     refined |-> [n \in 1..Len(image) |-> [c \in Channels |-> [p \in Pix |->
                    ((image[n][c][p] * (1 - mask[n][p]) + 2 * th + p + c) % 3) - 1]]]]

\* torch.cat((image, mask), dim=1): the mask becomes channel NumChannels + 1
Cat(image, mask) == [n \in 1..Len(image) |-> image[n] \o <<mask[n]>>]

\* InpaintSADiscriminator.forward: one score per patch (here: per pixel)
NetD(th, x) ==
    [n \in 1..Len(x) |-> [p \in Pix |->
        2 * x[n][1][p] + x[n][2][p] + x[n][NumChannels + 1][p] + 1 - 3 * th]]

\* ReconstructionLoss.forward: the mean weighted L1 distance to the image,
\* inside (h) and outside (nh) the hole, of the coarse (c) and of the
\* refined (r) image, each of the four with its own weight
ReconstructionLoss(w, image, coarse, refined, mask) ==
    MeanImage([n \in 1..Len(image) |-> [c \in Channels |-> [p \in Pix |->
        LET h == mask[n][p]
            nh == 1 - mask[n][p]
            dc == Abs(image[n][c][p] - coarse[n][c][p])
            dr == Abs(image[n][c][p] - refined[n][c][p])
        IN w.l1_c_h * dc * h + w.l1_c_nh * dc * nh
           + w.l1_r_h * dr * h + w.l1_r_nh * dr * nh]]])

(***************************************************************************)
(* torch.utils.data.DataLoader over an InpaintDataset.                     *)
(***************************************************************************)
DataLoader(dataset, batch_size, shuffle, drop_last) ==
    [dataset |-> dataset, batch_size |-> batch_size,
     shuffle |-> shuffle, drop_last |-> drop_last]

\* len(loader)
NumBatches(loader) ==
    IF loader.drop_last
    THEN Len(loader.dataset) \div loader.batch_size
    ELSE (Len(loader.dataset) + loader.batch_size - 1) \div loader.batch_size

\* default collate: a batch is {'image': [N,C,W], 'mask': [N,W]}
Collate(samples) ==
    [image |-> [j \in 1..Len(samples) |-> samples[j].image],
     mask |-> [j \in 1..Len(samples) |-> samples[j].mask]]

Min(a, b) == IF a < b THEN a ELSE b

\* the k-th batch of a loader that does not shuffle
BatchAt(loader, k) ==
    LET lo == (k - 1) * loader.batch_size
        n == Min(loader.batch_size, Len(loader.dataset) - lo)
    IN Collate([j \in 1..n |-> loader.dataset[lo + j]])

\* the batches a shuffling loader can yield: batch_size distinct samples of
\* the split, in any order
TrainBatches(loader) ==
    LET N == loader.batch_size
        picks == {f \in [1..N -> 1..Len(loader.dataset)] :
                     \A a, b \in 1..N : a # b => f[a] # f[b]}
    IN {Collate([j \in 1..N |-> loader.dataset[f[j]]]) : f \in picks}

(***************************************************************************)
(* The pieces of training_step.                                            *)
(***************************************************************************)
\* (mutation: the two operands of the blend exchanged)
CompletedSwapped(refined, image, mask) ==
    [n \in 1..Len(image) |-> [c \in Channels |-> [p \in Pix |->
        refined[n][c][p] * (1 - mask[n][p]) + image[n][c][p] * mask[n][p]]]]

\* refined_image * mask + image * (1 - mask), the mask broadcast over channels
Completed(refined, image, mask) ==
    [n \in 1..Len(image) |-> [c \in Channels |-> [p \in Pix |->
        refined[n][c][p] * mask[n][p] + image[n][c][p] * (1 - mask[n][p])]]]

\* -self.hparams.gen_loss_alpha * torch.mean(d_fake)
GenLoss(alpha, d_fake) == RScale(-alpha, Mean(d_fake))

\* (mutation: the reconstruction term left out of the total)
TotalLossNoRecon(gen_loss, reconstruction_loss) == gen_loss

\* gen_loss + reconstruction_loss
TotalLoss(gen_loss, reconstruction_loss) == RAdd(gen_loss, reconstruction_loss)

\* torch.mean(relu(1. - d_real))
RealLoss(d_real) ==
    Mean([n \in 1..Len(d_real) |-> [p \in Pix |-> Relu(1 - d_real[n][p])]])

\* (mutation: the margin of the real part used for the fake part)
FakeLossRealMargin(d_fake) ==
    Mean([n \in 1..Len(d_fake) |-> [p \in Pix |-> Relu(1 - d_fake[n][p])]])

\* torch.mean(relu(1. + d_fake))
FakeLoss(d_fake) ==
    Mean([n \in 1..Len(d_fake) |-> [p \in Pix |-> Relu(1 + d_fake[n][p])]])

\* self.hparams.disc_loss_alpha * (real_loss + fake_loss)
DiscLoss(alpha, real_loss, fake_loss) == RScale(alpha, RAdd(real_loss, fake_loss))

\* (mutation: a learning-rate decay written back into the hyperparameters)
StoreGeneratedDecaysLr(s, batch, refined_image, completed_image) ==
    [s EXCEPT !.last_batch = Some(batch),
              !.generated_image = Some(refined_image),
              !.generated_image_only_patch = Some(completed_image),
              !.hparams.lr = 0]

\* (mutation: the completed image is not kept)
StoreGeneratedNoPatch(s, batch, refined_image, completed_image) ==
    [s EXCEPT !.last_batch = Some(batch),
              !.generated_image = Some(refined_image)]

\* (mutation: the generator loss is kept on the object for the next call)
StoreGeneratedKeepsLoss(s, batch, refined_image, completed_image) ==
    [a \in DOMAIN s \cup {"gen_loss"} |->
        CASE a = "last_batch" -> Some(batch)
          [] a = "generated_image" -> Some(refined_image)
          [] a = "generated_image_only_patch" -> Some(completed_image)
          [] a = "gen_loss" ->
                Some(GenLoss(s.hparams.gen_loss_alpha,
                             NetD(s.net_D, Cat(completed_image, batch.mask))))
          [] OTHER -> s[a]]

\* the attributes the generator branch assigns
StoreGenerated(s, batch, refined_image, completed_image) ==
    [s EXCEPT !.last_batch = Some(batch),
              !.generated_image = Some(refined_image),
              !.generated_image_only_patch = Some(completed_image)]

\* the attribute every call assigns before it branches
StoreBatch(s, batch) == [s EXCEPT !.last_batch = Some(batch)]

\* (mutation: only the generator's optimizer is returned)
OptimizersOnlyGenerator(s) ==
    << [params |-> {"net_G"}, lr |-> s.hparams.lr,
        weight_decay |-> s.hparams.weight_decay] >>

\* (mutation: the first optimizer is built over self.parameters())
OptimizersAllParameters(s) ==
    << [params |-> {"net_G", "net_D"}, lr |-> s.hparams.lr,
        weight_decay |-> s.hparams.weight_decay],
       [params |-> {"net_D"}, lr |-> 4 * s.hparams.lr,
        weight_decay |-> s.hparams.weight_decay] >>

\* configure_optimizers: [opt_g, opt_d]
Optimizers(s) ==
    << [params |-> {"net_G"}, lr |-> s.hparams.lr,
        weight_decay |-> s.hparams.weight_decay],
       [params |-> {"net_D"}, lr |-> 4 * s.hparams.lr,
        weight_decay |-> s.hparams.weight_decay] >>

(***************************************************************************)
(* The pieces of on_epoch_end.                                             *)
(***************************************************************************)
\* (np.transpose(x, [1, 2, 0]) * std + mean) * 255, cast to uint8; the pixel
\* values of the model keep the product inside 0..255
Std == <<229, 224, 225>>
Mean3 == <<485, 456, 406>>
ToUint8(x, c) == (((x * Std[c] + Mean3[c]) * 255) \div 1000) % 256
Denormalize(img) == << [p \in Pix |-> [c \in Channels |-> ToUint8(img[c][p], c)]] >>

\* batch['image'] * (1 - batch['mask']) + batch['mask']
MaskedImage(image, mask) ==
    [n \in 1..Len(image) |-> [c \in Channels |-> [p \in Pix |->
        image[n][c][p] * (1 - mask[n][p]) + mask[n][p]]]]

RECURSIVE VStack(_)
VStack(arrays) == IF arrays = <<>> THEN <<>> ELSE Head(arrays) \o VStack(Tail(arrays))
\* np.hstack of arrays with the same number of rows
HStack(arrays) ==
    LET RECURSIVE Row(_, _)
        Row(r, k) == IF k > Len(arrays) THEN <<>> ELSE arrays[k][r] \o Row(r, k + 1)
    IN [r \in 1..Len(arrays[1]) |-> Row(r, 1)]

\* the loop over self.visualization_dataloader, from batch k on
RECURSIVE VisualizationLists(_, _, _)
VisualizationLists(s, k, acc) ==
    IF k > NumBatches(s.visualization_dataloader) THEN acc
    ELSE LET batch == BatchAt(s.visualization_dataloader, k)
             g == NetG(s.net_G, batch.image, batch.mask)
             completed_image == Completed(g.refined, batch.image, batch.mask)
             masked_image == MaskedImage(batch.image, batch.mask)
             J == 1..Len(batch.image)
         IN VisualizationLists(s, k + 1,
              [images |-> acc.images \o [j \in J |-> Denormalize(batch.image[j])],
               coarse |-> acc.coarse \o [j \in J |-> Denormalize(g.coarse[j])],
               refined |-> acc.refined \o [j \in J |-> Denormalize(g.refined[j])],
               masked |-> acc.masked \o [j \in J |-> Denormalize(masked_image[j])],
               completed |-> acc.completed \o [j \in J |-> Denormalize(completed_image[j])]])

EmptyLists ==
    [images |-> <<>>, coarse |-> <<>>, refined |-> <<>>, masked |-> <<>>, completed |-> <<>>]

\* (mutation: the lists stacked in the order they are declared)
VisualizationDeclarationOrder(l) ==
    HStack(<<VStack(l.images), VStack(l.coarse), VStack(l.refined),
             VStack(l.masked), VStack(l.completed)>>)

\* np.hstack([np.vstack(masked), np.vstack(coarse), np.vstack(refined),
\*            np.vstack(completed), np.vstack(images)])
Visualization(l) ==
    HStack(<<VStack(l.masked), VStack(l.coarse), VStack(l.refined),
             VStack(l.completed), VStack(l.images)>>)

(***************************************************************************)
(* State.  self is the DeepFillV2 object; the other variables belong to    *)
(* the Trainer that __main__ builds and to the logger it is given.         *)
(***************************************************************************)
VARIABLES
    self,            \* the attributes of the DeepFillV2 object
    optimizers,      \* the list configure_optimizers returned
    train_loader,    \* the loader train_dataloader returned, or None
    val_loader,      \* the loader val_dataloader returned, or None
    pc,              \* where trainer.fit(model) stands
    cur_batch,       \* the batch of the current iteration, or None
    optimizer_idx,   \* the optimizer of the current training_step
    batch_idx,       \* batches done in this epoch
    current_epoch,
    global_step,
    ret,             \* how the last hook ended: what it returned or raised
    logged,          \* what the last hook passed to self.logger
    calls            \* optimizer_idx of each training_step on cur_batch

vars == <<self, optimizers, train_loader, val_loader, pc, cur_batch, optimizer_idx, batch_idx,
          current_epoch, global_step, ret, logged, calls>>

\* (mutation: the failing hook is skipped and the loop goes on)
UncaughtSkipped(exception) == "batch"

\* no hook, nor __main__ around trainer.fit, catches anything: an exception
\* that leaves a hook ends the run
Uncaught(exception) == "crashed"

Returned(call, value) == [call |-> call, raised |-> "", value |-> value]
Raised(call, exception) == [call |-> call, raised |-> exception, value |-> None]

\* DeepFillV2.__init__(args), with a visualization split of n samples
NewDeepFillV2(args, n) ==
    [hparams |-> args,
     net_G |-> 0,
     net_D |-> 0,
     recon_loss |-> [l1_c_h |-> args.l1_c_h, l1_c_nh |-> args.l1_c_nh,
                     l1_r_h |-> args.l1_r_h, l1_r_nh |-> args.l1_r_nh],
     last_batch |-> None,
     generated_image |-> None,
     generated_image_only_patch |-> None,
     visualization_dataloader |->
         DataLoader(InpaintDataset(n), args.batch_size, FALSE, FALSE)]

Init ==
    /\ \E args \in HParamChoices, n \in 0..MaxVis : self = NewDeepFillV2(args, n)
    /\ optimizers = <<>>
    /\ train_loader = None
    /\ val_loader = None
    /\ pc = "fit"
    /\ cur_batch = None
    /\ optimizer_idx = 0
    /\ batch_idx = 0
    /\ current_epoch = 0
    /\ global_step = 0
    /\ ret = Returned("__init__", None)
    /\ logged = <<>>
    /\ calls = <<>>

\* trainer.fit(model) asks the model for its optimizers ...
ConfigureOptimizers ==
    /\ pc = "fit"
    /\ optimizers' = Optimizers(self)
    /\ ret' = Returned("configure_optimizers", None)
    /\ logged' = <<>>
    /\ pc' = "loader"
    /\ UNCHANGED <<self, train_loader, val_loader, cur_batch, optimizer_idx, batch_idx,
                   current_epoch, global_step, calls>>

\* ... and for its train loader
TrainDataloader ==
    /\ pc = "loader"
    /\ train_loader' = Some(DataLoader(InpaintDataset(NumImages),
                                       self.hparams.batch_size, TRUE, TRUE))
    /\ ret' = Returned("train_dataloader", None)
    /\ logged' = <<>>
    /\ pc' = "val_loader"
    /\ UNCHANGED <<self, optimizers, val_loader, cur_batch, optimizer_idx, batch_idx,
                   current_epoch, global_step, calls>>

\* ... and for its validation loader, which no hook of this model reads
ValDataloader ==
    /\ pc = "val_loader"
    /\ val_loader' = Some(DataLoader(InpaintDataset(NumImages),
                                     self.hparams.batch_size, FALSE, FALSE))
    /\ ret' = Returned("val_dataloader", None)
    /\ logged' = <<>>
    /\ pc' = "batch"
    /\ UNCHANGED <<self, optimizers, train_loader, cur_batch, optimizer_idx, batch_idx,
                   current_epoch, global_step, calls>>

\* the next batch of the epoch; the optimizers are then tried in order
NextBatch ==
    /\ pc = "batch"
    /\ batch_idx < NumBatches(train_loader[1])
    /\ \E batch \in TrainBatches(train_loader[1]) : cur_batch' = Some(batch)
    /\ optimizer_idx' = 0
    /\ calls' = <<>>
    /\ pc' = IF optimizers = <<>> THEN "batch_end" ELSE "training_step"
    /\ UNCHANGED <<self, optimizers, train_loader, val_loader, batch_idx, current_epoch,
                   global_step, ret, logged>>

\* training_step(batch, batch_idx, optimizer_idx)
TrainingStep ==
    /\ pc = "training_step"
    /\ calls' = Append(calls, optimizer_idx)
    /\ LET batch == cur_batch[1]
           image == batch.image
           mask == batch.mask
       IN CASE optimizer_idx = 0 ->
                 LET g == NetG(self.net_G, image, mask)
                     reconstruction_loss ==
                         ReconstructionLoss(self.recon_loss, image, g.coarse, g.refined, mask)
                     completed_image == Completed(g.refined, image, mask)
                     d_fake == NetD(self.net_D, Cat(completed_image, mask))
                     gen_loss == GenLoss(self.hparams.gen_loss_alpha, d_fake)
                     total_loss == TotalLoss(gen_loss, reconstruction_loss)
                 IN /\ self' = StoreGenerated(self, batch, g.refined, completed_image)
                    /\ logged' = << [fn |-> "log_generator_losses", step |-> global_step,
                                     values |-> <<gen_loss, reconstruction_loss>>],
                                    [fn |-> "log_total_generator_loss", step |-> global_step,
                                     values |-> <<total_loss>>] >>
                    /\ ret' = Returned("training_step",
                                Some([loss |-> total_loss,
                                      progress_bar |-> [gen_loss |-> gen_loss,
                                                        recon_loss |-> reconstruction_loss]]))
                    /\ pc' = "backward"
            [] optimizer_idx = 1 ->
                 IF self.generated_image_only_patch = None
                 THEN \* None has no detach()
                      /\ self' = StoreBatch(self, batch)
                      /\ logged' = <<>>
                      /\ ret' = Raised("training_step", "AttributeError")
                      /\ pc' = Uncaught("AttributeError")
                 ELSE LET d_real == NetD(self.net_D, Cat(image, mask))
                          d_fake == NetD(self.net_D,
                                         Cat(self.generated_image_only_patch[1], mask))
                          real_loss == RealLoss(d_real)
                          fake_loss == FakeLoss(d_fake)
                          disc_loss == DiscLoss(self.hparams.disc_loss_alpha,
                                                real_loss, fake_loss)
                      IN /\ self' = StoreBatch(self, batch)
                         /\ logged' = << [fn |-> "log_total_discriminator_loss",
                                          step |-> global_step, values |-> <<disc_loss>>],
                                         [fn |-> "log_discriminator_losses",
                                          step |-> global_step,
                                          values |-> <<real_loss, fake_loss>>] >>
                         /\ ret' = Returned("training_step",
                                     Some([loss |-> disc_loss,
                                           progress_bar |-> [d_real_loss |-> real_loss,
                                                             d_fake_loss |-> fake_loss]]))
                         /\ pc' = "backward"
            [] OTHER ->
                 \* neither branch is taken: the method returns None
                 /\ self' = StoreBatch(self, batch)
                 /\ logged' = <<>>
                 /\ ret' = Returned("training_step", None)
                 /\ pc' = "backward"
    /\ UNCHANGED <<optimizers, train_loader, val_loader, cur_batch, optimizer_idx, batch_idx,
                   current_epoch, global_step>>

\* the Trainer backpropagates the returned loss and steps the optimizer the
\* call was made for: the parameters that optimizer holds may change
OptimizerStep ==
    /\ pc = "backward"
    /\ IF ret.value = None
       THEN \* there is no loss to backpropagate
            /\ pc' = Uncaught("TypeError")
            /\ UNCHANGED <<self, optimizer_idx>>
       ELSE /\ \E g \in Thetas, d \in Thetas :
                 LET held == optimizers[optimizer_idx + 1].params
                 IN self' = [self EXCEPT
                               !.net_G = IF "net_G" \in held THEN g ELSE @,
                               !.net_D = IF "net_D" \in held THEN d ELSE @]
            /\ optimizer_idx' = optimizer_idx + 1
            /\ pc' = IF optimizer_idx + 1 < Len(optimizers)
                     THEN "training_step" ELSE "batch_end"
    /\ UNCHANGED <<optimizers, train_loader, val_loader, cur_batch, batch_idx, current_epoch,
                   global_step, ret, logged, calls>>

\* every optimizer has had its step on the batch
BatchEnd ==
    /\ pc = "batch_end"
    /\ batch_idx' = batch_idx + 1
    /\ global_step' = global_step + 1
    /\ pc' = "batch"
    /\ UNCHANGED <<self, optimizers, train_loader, val_loader, cur_batch, optimizer_idx,
                   current_epoch, ret, logged, calls>>

\* on_epoch_end(), called when the epoch has no batch left
OnEpochEnd ==
    /\ pc = "batch"
    /\ batch_idx = NumBatches(train_loader[1])
    /\ LET l == VisualizationLists(self, 1, EmptyLists)
       IN IF l.masked = <<>>
          THEN \* np.vstack of an empty list
               /\ logged' = <<>>
               /\ ret' = Raised("on_epoch_end", "ValueError")
               /\ pc' = Uncaught("ValueError")
               /\ UNCHANGED <<batch_idx, current_epoch>>
          ELSE /\ logged' = << [fn |-> "log_image", step |-> global_step,
                                values |-> <<Visualization(l)>>] >>
               /\ ret' = Returned("on_epoch_end", None)
               /\ current_epoch' = current_epoch + 1
               /\ batch_idx' = 0
               /\ pc' = IF current_epoch + 1 < self.hparams.max_epoch
                        THEN "batch" ELSE "done"
    /\ UNCHANGED <<self, optimizers, train_loader, val_loader, cur_batch, optimizer_idx,
                   global_step, calls>>

Next ==
    \/ ConfigureOptimizers
    \/ TrainDataloader
    \/ ValDataloader
    \/ NextBatch
    \/ TrainingStep
    \/ OptimizerStep
    \/ BatchEnd
    \/ OnEpochEnd

Spec == Init /\ [][Next]_vars

(***************************************************************************)
(* Properties.                                                             *)
(***************************************************************************)
LastCall == IF calls = <<>> THEN -1 ELSE calls[Len(calls)]
\* training_step has just returned from its generator / discriminator branch
AfterGeneratorStep == pc = "backward" /\ LastCall = 0 /\ ret.value # None
AfterDiscriminatorStep == pc = "backward" /\ LastCall = 1 /\ ret.value # None
BatchComplete == pc \in {"batch_end", "batch", "done"} /\ cur_batch # None

\* C1: on every batch training_step runs once with optimizer_idx 0 and then
\* once with optimizer_idx 1, both on that batch, before the next batch is
\* fetched or the epoch ends; the same index never runs twice in a row.
C1_AlternatePerBatch ==
    /\ calls \in {<<>>, <<0>>, <<0, 1>>}
    /\ pc = "training_step" => optimizer_idx = Len(calls) /\ optimizer_idx < 2
    /\ calls # <<>> => self.last_batch = cur_batch
    /\ BatchComplete => calls = <<0, 1>>
    /\ pc = "batch" => global_step = current_epoch * NumBatches(train_loader[1]) + batch_idx

\* two batches of one epoch have each had both steps
C1_Witness == pc = "batch" /\ batch_idx = 2 /\ calls = <<0, 1>>

\* C2: configure_optimizers returns two optimizers, the first over net_G's
\* parameters only and the second over net_D's only; a step made for
\* optimizer_idx 0 leaves net_D's parameters as they were and a step made for
\* optimizer_idx 1 leaves net_G's.
C2_OwnOptimizer ==
    [][ /\ optimizers' # <<>> =>
             /\ Len(optimizers') = 2
             /\ optimizers'[1].params = {"net_G"}
             /\ optimizers'[2].params = {"net_D"}
        /\ pc \in {"training_step", "backward"} /\ optimizer_idx = 0 =>
             self'.net_D = self.net_D
        /\ pc \in {"training_step", "backward"} /\ optimizer_idx = 1 =>
             self'.net_G = self.net_G ]_vars

\* both optimizers have stepped on the first batch and moved their network
C2_Witness ==
    /\ pc = "batch_end" /\ global_step = 0 /\ calls = <<0, 1>>
    /\ self.net_G # 0 /\ self.net_D # 0

\* C3: no step changes self.hparams, and what __init__ derived from the
\* arguments still agrees with it.
C3_HparamsNeverMutated ==
    /\ [][self'.hparams = self.hparams]_vars
    /\ [](/\ self.hparams \in HParamChoices
          /\ self.visualization_dataloader.batch_size = self.hparams.batch_size
          /\ \A k \in DOMAIN self.recon_loss : self.recon_loss[k] = self.hparams[k])

\* a run that made every kind of call and reached its last epoch
C3_Witness ==
    /\ pc = "done" /\ global_step >= 2 /\ ret.call = "on_epoch_end"
    /\ self.generated_image_only_patch # None

\* the visualization the last on_epoch_end logged, and in it the pixel p of
\* row r under heading k (1 masked, 2 coarse, 3 refined, 4 completed, 5 original)
EpochEndLogged == ret.call = "on_epoch_end" /\ ret.raised = ""
LoggedImage == logged[1].values[1]
Column(k, r, p) == LoggedImage[r][(k - 1) * NumPixels + p]
VisDataset == self.visualization_dataloader.dataset

\* C4: the completed image is the image wherever the mask is 0 and the
\* refined image wherever the mask is 1, in every channel: for the batch of
\* the generator step, and for every sample on_epoch_end draws.
C4_CompletedBlend ==
    /\ self.generated_image_only_patch # None =>
         LET image == self.last_batch[1].image
             mask == self.last_batch[1].mask
             refined == self.generated_image[1]
             completed == self.generated_image_only_patch[1]
         IN \A n \in 1..Len(image), c \in Channels, p \in Pix :
               /\ mask[n][p] \in {0, 1}
               /\ mask[n][p] = 0 => completed[n][c][p] = image[n][c][p]
               /\ mask[n][p] = 1 => completed[n][c][p] = refined[n][c][p]
    /\ EpochEndLogged =>
         \A r \in 1..Len(VisDataset), p \in Pix :
               /\ VisDataset[r].mask[p] = 0 => Column(4, r, p) = Column(5, r, p)
               /\ VisDataset[r].mask[p] = 1 => Column(4, r, p) = Column(3, r, p)

\* a generator step whose completed image is neither the image nor the
\* refined image, then an epoch end whose rows show the same
C4_Witness ==
    /\ EpochEndLogged
    /\ self.generated_image_only_patch # None
    /\ self.generated_image_only_patch[1] # self.last_batch[1].image
    /\ self.generated_image_only_patch # self.generated_image
    /\ \E r \in 1..Len(VisDataset) :
          /\ \E p \in Pix : Column(4, r, p) # Column(5, r, p)
          /\ \E p \in Pix : Column(4, r, p) # Column(3, r, p)

\* what the discriminator branch saw and returned
DReal == NetD(self.net_D, Cat(self.last_batch[1].image, self.last_batch[1].mask))
DFake == NetD(self.net_D, Cat(self.generated_image_only_patch[1], self.last_batch[1].mask))
Scores(d) == {d[n][p] : n \in 1..Len(d), p \in Pix}
Result == ret.value[1]

\* C5: the discriminator loss is disc_loss_alpha * (real part + fake part);
\* both parts are >= 0, and so is the loss when disc_loss_alpha >= 0; the
\* real part is 0 exactly when every d_real >= 1 and the fake part is 0
\* exactly when every d_fake <= -1.
C5_HingeLoss ==
    AfterDiscriminatorStep =>
        LET real_loss == Result.progress_bar.d_real_loss
            fake_loss == Result.progress_bar.d_fake_loss
            alpha == self.hparams.disc_loss_alpha
        IN /\ REq(Result.loss, RScale(alpha, RAdd(real_loss, fake_loss)))
           /\ RNonNeg(real_loss) /\ RNonNeg(fake_loss)
           /\ alpha >= 0 => RNonNeg(Result.loss)
           /\ RIsZero(real_loss) <=> \A x \in Scores(DReal) : x >= 1
           /\ RIsZero(fake_loss) <=> \A x \in Scores(DFake) : x <= -1
           /\ logged[1].values = <<Result.loss>>
           /\ logged[2].values = <<real_loss, fake_loss>>

\* a discriminator step whose real part vanishes while its fake part does not
C5_Witness ==
    /\ AfterDiscriminatorStep
    /\ RIsZero(Result.progress_bar.d_real_loss)
    /\ ~RIsZero(Result.progress_bar.d_fake_loss)
    /\ ~RIsZero(Result.loss)

\* the other way round (reached as well)
C5_FakePartVanishes ==
    /\ AfterDiscriminatorStep
    /\ RIsZero(Result.progress_bar.d_fake_loss)
    /\ ~RIsZero(Result.progress_bar.d_real_loss)

\* C6: a generator step returns loss = gen_loss + recon_loss, the two values
\* of progress_bar, where gen_loss = -gen_loss_alpha * mean(d_fake) for the
\* discriminator's output on the completed image with the mask, and
\* recon_loss is the reconstruction loss of (image, coarse, refined, mask);
\* the same values go to the logger.
C6_GeneratorLoss ==
    AfterGeneratorStep =>
        LET image == self.last_batch[1].image
            mask == self.last_batch[1].mask
            gen_loss == Result.progress_bar.gen_loss
            recon_loss == Result.progress_bar.recon_loss
        IN /\ REq(Result.loss, RAdd(gen_loss, recon_loss))
           /\ REq(gen_loss, RScale(-self.hparams.gen_loss_alpha, Mean(DFake)))
           /\ REq(recon_loss,
                  ReconstructionLoss(self.recon_loss, image,
                                     NetG(self.net_G, image, mask).coarse,
                                     self.generated_image[1], mask))
           /\ logged[1].values = <<gen_loss, recon_loss>>
           /\ logged[2].values = <<Result.loss>>

\* a generator step with both terms different from 0
C6_Witness ==
    /\ AfterGeneratorStep
    /\ ~RIsZero(Result.progress_bar.gen_loss)
    /\ ~RIsZero(Result.progress_bar.recon_loss)
    /\ ~REq(Result.loss, Result.progress_bar.gen_loss)

\* C7: no loss outlives the call that computed it.  training_step assigns
\* last_batch and, in its generator branch, generated_image and
\* generated_image_only_patch (the refined and the completed image) and
\* nothing else of the object; the discriminator branch works its two parts
\* out afresh from net_D as it is now, the batch and the kept completed image.
C7_LossesEphemeral ==
    /\ [][pc = "training_step" =>
            LET image == cur_batch[1].image
                mask == cur_batch[1].mask
                refined == NetG(self.net_G, image, mask).refined
            IN self' = [self EXCEPT
                          !.last_batch = cur_batch,
                          !.generated_image =
                              IF optimizer_idx = 0 THEN Some(refined) ELSE @,
                          !.generated_image_only_patch =
                              IF optimizer_idx = 0
                              THEN Some(Completed(refined, image, mask)) ELSE @]]_vars
    /\ [](AfterDiscriminatorStep =>
            /\ Result.progress_bar.d_real_loss = RealLoss(DReal)
            /\ Result.progress_bar.d_fake_loss = FakeLoss(DFake))

\* a discriminator step of a later batch, made after net_D has moved
C7_Witness ==
    /\ AfterDiscriminatorStep /\ global_step >= 1 /\ self.net_D # 0
    /\ ~RIsZero(Result.loss)

\* C8: an on_epoch_end that completes logs one image, at the current global
\* step; it has one row per sample of the visualization split, in the order
\* of the split, and in each row the masked, coarse, refined, completed and
\* original image from left to right; the call leaves the object (both
\* networks, last_batch, generated_image, generated_image_only_patch) alone.
C8_EpochEndVisualization ==
    /\ [](EpochEndLogged =>
            /\ Len(logged) = 1
            /\ logged[1].fn = "log_image"
            /\ logged[1].step = global_step
            /\ Len(LoggedImage) = Len(VisDataset)
            /\ \A r \in 1..Len(VisDataset) :
                 LET image == <<VisDataset[r].image>>
                     mask == <<VisDataset[r].mask>>
                     g == NetG(self.net_G, image, mask)
                     Shown(t) == Denormalize(t[1])[1]
                 IN LoggedImage[r] =
                        Shown(MaskedImage(image, mask)) \o Shown(g.coarse)
                        \o Shown(g.refined)
                        \o Shown(Completed(g.refined, image, mask)) \o Shown(image))
    /\ [][pc = "batch" /\ batch_idx = NumBatches(train_loader[1]) => self' = self]_vars

\* three samples shown in batches of two, after the generator has moved
C8_Witness ==
    /\ EpochEndLogged /\ global_step >= 1 /\ self.net_G # 0
    /\ Len(VisDataset) = 3 /\ self.visualization_dataloader.batch_size = 2

\* C9: when the discriminator branch runs on a batch, the generator branch
\* has run on that batch just before and generated_image_only_patch is the
\* completed image it made of that batch's image and mask.
C9_FakeFromSameBatch ==
    (pc = "training_step" /\ optimizer_idx = 1) \/ LastCall = 1 =>
        /\ self.generated_image_only_patch # None
        /\ calls[1] = 0
        /\ self.last_batch = cur_batch
        /\ \E th \in Thetas :
             LET image == cur_batch[1].image
                 mask == cur_batch[1].mask
                 refined == NetG(th, image, mask).refined
             IN /\ self.generated_image = Some(refined)
                /\ self.generated_image_only_patch = Some(Completed(refined, image, mask))

\* the discriminator step of the second batch
C9_Witness == AfterDiscriminatorStep /\ global_step = 1 /\ self.net_G # 0

\* C10: a hook that raises returns nothing and logs nothing, and the run is
\* over: nothing runs after it.
C10_NoRecovery ==
    /\ [](ret.raised # "" => pc = "crashed" /\ ret.value = None /\ logged = <<>>)
    /\ [][pc = "crashed" => UNCHANGED vars]_vars

\* on_epoch_end failed on an empty visualization split after a trained epoch
C10_Witness ==
    /\ pc = "crashed" /\ ret.call = "on_epoch_end" /\ ret.raised = "ValueError"
    /\ global_step >= 1 /\ VisDataset = <<>>

====
